---- MODULE Spec2Model ----
(***************************************************************************)
(* Verification model of the time-series transformers of this repository:  *)
(*   - Swin_MAE (src/unnamed/part_000): random masking, the encoder and    *)
(*     decoder forward pass, the pretraining loss and the train / pretrain *)
(*     / finetune / evaluate driver;                                       *)
(*   - ViT (src/notebooks/ViT.ipynb): the Patches / PatchEncoder stage.    *)
(*                                                                         *)
(* Tensors are modelled without the batch axis (every sample of a batch is *)
(* treated independently by the code) and with an embedding width of one   *)
(* integer per token; index tensors hold 0-based indices as in the code,   *)
(* stored in 1-based TLA+ sequences.                                       *)
(***************************************************************************)
EXTENDS Integers, Sequences, FiniteSets

VARIABLES
    \* ---- Swin_MAE configuration (constructor arguments) ----
    L,              \* input_shape[0]: number of timesteps / patches
    F,              \* input_shape[-1]: features per timestep
    mask_ratio,     \* self.mask_ratio, in hundredths (75 is 0.75)
    \* ---- one forward pass through encoder and decoder ----
    pc,             \* position of the current computation
    inputs,         \* the input sample: L timesteps of F features
    x,              \* Dense(64)(inputs): one embedding per timestep
    len_keep,       \* _random_masking: number of kept patches
    noise,          \* _random_masking: the uniform draw
    ids_shuffle,    \* _random_masking: argsort(noise)
    ids_restore,    \* _random_masking: argsort(ids_shuffle)
    ids_keep,       \* _random_masking: ids_shuffle[:len_keep]
    masked_x,       \* kept embeddings (then + positional rows)
    encoder_output, \* output of the encoder model
    reconstructed,  \* output of the decoder model
    \* ---- pretraining loss ----
    y_true, y_pred, loss,
    \* ---- ViT patch stage ----
    vit_shape,      \* ViT.input_shape as <<T, F>>
    patches,        \* shape of the Patches output, or "error"
    num_patches,    \* ViT._build_model: num_patches
    encoded,        \* shape of the PatchEncoder output, or "error"
    \* ---- Swin_MAE object over a sequence of calls ----
    encW, decW, headP,     \* parameters of encoder, decoder, classifier head
    classifier,            \* self.classifier: its .layers list
    encoder_trainable,     \* self.encoder.trainable
    files,                 \* checkpoint files written under model_dir
    call,                  \* the last call: its name, mode, outcome, target
    stage,                 \* training the object has gone through
    preds                  \* y_pred of the evaluate calls since the last fit

cfgVars   == <<L, F, mask_ratio>>
fwdVars   == <<pc, inputs, x, len_keep, noise, ids_shuffle, ids_restore,
               ids_keep, masked_x, encoder_output, reconstructed>>
lossVars  == <<y_true, y_pred, loss>>
vitVars   == <<vit_shape, patches, num_patches, encoded>>
objVars   == <<encW, decW, headP, classifier, encoder_trainable, files,
               call, stage, preds>>
vars      == <<cfgVars, fwdVars, lossVars, vitVars, objVars>>

-----------------------------------------------------------------------------
(* Bounds of the model *)

MaxSeqLen == 80     \* longest sequence of the keep-length specification
MaxLen    == 3      \* longest sequence of the forward-pass specification
MaxFeat   == 2      \* widest feature vector of the forward pass
MaxNoise  == 1      \* noise values are 0..MaxNoise (ties are possible)
MaxElems  == 3      \* most elements of a loss target
MaxSteps  == 24     \* most timesteps of a ViT input
MaxChans  == 4      \* most features of a ViT input
MaxEvals  == 2      \* most evaluate calls between two fits

-----------------------------------------------------------------------------
(* Helpers *)

RECURSIVE Pow2(_)
Pow2(n) == IF n = 0 THEN 1 ELSE 2 * Pow2(n - 1)

RECURSIVE SumSeq(_)
SumSeq(s) == IF s = <<>> THEN 0 ELSE Head(s) + SumSeq(Tail(s))

MinSeq(s) == CHOOSE m \in {s[i] : i \in DOMAIN s} :
                 \A i \in DOMAIN s : m <= s[i]

None == "none"

\* a tensor given by its elements, evaluated once
Tensor(f) == SubSeq(f, 1, Len(f))

-----------------------------------------------------------------------------
(* IEEE-754 single precision, as far as line 40 needs it.  A positive      *)
(* float32 is [m, p], the value m / 2^p with a 24-bit significand m.       *)

F32Bits == 24

\* n / d rounded to the nearest integer, ties to even
RoundHalfEven(n, d) ==
    LET q == n \div d
        r == n % d
    IN  IF 2 * r > d \/ (2 * r = d /\ q % 2 = 1) THEN q + 1 ELSE q

RECURSIVE NormShift(_, _, _)
NormShift(n, d, p) ==
    IF n * Pow2(p) >= d * Pow2(F32Bits - 1) THEN p ELSE NormShift(n, d, p + 1)

\* the float32 nearest to n / d, for 0 < n <= d
F32OfRatio(n, d) ==
    LET p == NormShift(n, d, F32Bits - 1)
    IN  [m |-> RoundHalfEven(n * Pow2(p), d), p |-> p]

RECURSIVE ExcessBits(_, _)
ExcessBits(v, s) ==
    IF v \div Pow2(s) < Pow2(F32Bits) THEN s ELSE ExcessBits(v, s + 1)

\* float32 product of the integer k (exact in float32) and the float32 f
F32Mul(k, f) ==
    LET prod == k * f.m
        s    == ExcessBits(prod, 0)
    IN  [m |-> RoundHalfEven(prod, Pow2(s)) * Pow2(s), p |-> f.p]

\* tf.cast(., tf.int32) of a non-negative float32: truncation
F32ToInt32(f) == f.m \div Pow2(f.p)

\* (1 - self.mask_ratio) is computed by Python in double precision and
\* converted to float32 when it meets the float32 tensor.  For the ratios
\* of the model (hundredths) that conversion is the float32 nearest to
\* (100 - mask_ratio) / 100.
KeepFraction(ratio) == F32OfRatio(100 - ratio, 100)

\* line 40: len_keep = int32(float32(L) * (1 - mask_ratio))
LenKeep(len, ratio) == F32ToInt32(F32Mul(len, KeepFraction(ratio)))

\* the real-number value floor(L * (1 - r)) for r = ratio / 100
FloorKeep(len, ratio) == (len * (100 - ratio)) \div 100

-----------------------------------------------------------------------------
(* Tensor operations of _random_masking and _build_mae *)

ParamVals == {1, 2}                  \* values a weight can take
NoiseVals == 0..MaxNoise             \* values of tf.random.uniform
RatioVals == {0, 50, 75}             \* mask ratios of the forward pass

\* index tensors over [0, n): all orderings of 0..n-1
RECURSIVE Orderings(_)
Orderings(S) ==
    IF S = {} THEN {<<>>}
    ELSE UNION {{<<e>> \o p : p \in Orderings(S \ {e})} : e \in S}

Perms(n) == Orderings(0..(n - 1))

\* tf.argsort(v): the indices that sort v ascending.  The sort is not
\* stable, so equal values may come out in any order.
Argsorts(v) ==
    {p \in Perms(Len(v)) :
        \A i, j \in 1..Len(v) : i < j => v[p[i] + 1] <= v[p[j] + 1]}

\* line 42: ids_shuffle = argsort(noise), every outcome the sort can give
IdsShuffle(nz) == Argsorts(nz)

\* _random_masking without the second argsort
IdsRestoreForgotten(shuffle) == shuffle

\* lines 41-42 over every noise draw: the orders ids_shuffle can take
ShuffleOutcomes(len) == UNION {IdsShuffle(nz) : nz \in [1..len -> NoiseVals]}

\* line 43: ids_restore = argsort(ids_shuffle); its values are distinct, so
\* the result is unique
IdsRestore(shuffle) == CHOOSE p \in Argsorts(shuffle) : TRUE

\* line 44: ids_keep = ids_shuffle[:, :len_keep]
IdsKeep(shuffle, keep) == SubSeq(shuffle, 1, keep)

\* tf.gather / tf.gather_nd along the patch axis
Gather(params, ids) == Tensor([j \in 1..Len(ids) |-> params[ids[j] + 1]])

\* line 53: layers.Dense(64)(inputs), one embedding per timestep
DenseEmbed(inp, w) == Tensor([i \in 1..Len(inp) |-> w * SumSeq(inp[i])])

\* line 60: the positional table, one row per patch index 0..n-1 (the rows
\* of a freshly initialised Embedding differ from one another)
PosEmbed(n) == Tensor([i \in 1..n |-> i])

\* lines 61 and 71: t + pos_embed[:tf.shape(t)[1]]
AddPos(t, n) ==
    LET rows == SubSeq(PosEmbed(n), 1, Len(t))
    IN  Tensor([j \in 1..Len(t) |-> t[j] + rows[j]])

\* LayerNormalization, kept in the integers: centring of the token values
Norm(t) ==
    IF t = <<>> THEN t
    ELSE LET m == MinSeq(t) IN Tensor([j \in 1..Len(t) |-> t[j] - m])

\* MultiHeadAttention(q, q) without a mask: every position sees them all
Attn(t) == LET all == SumSeq(t) IN Tensor([j \in 1..Len(t) |-> all])

\* the token-wise Dense / Dropout / Dense stack (lines 15-19), kept in the
\* integers: each token scaled on its own
Mlp(t) == Tensor([j \in 1..Len(t) |-> 2 * t[j]])

\* SwinBlock.call (lines 21-24): two residual sub-layers, shape preserved
SwinBlock(t) ==
    LET attn == Attn(Norm(t))
        a    == Tensor([j \in 1..Len(t) |-> t[j] + attn[j]])
        mlp  == Mlp(Norm(a))
    IN  Tensor([j \in 1..Len(t) |-> a[j] + mlp[j]])

RECURSIVE Blocks(_, _)
Blocks(t, n) == IF n = 0 THEN t ELSE Blocks(SwinBlock(t), n - 1)

EncoderDepth == 4
DecoderDepth == 2

\* lines 61-67: positional rows, then the encoder blocks
Encoder(kept, n) == Blocks(AddPos(kept, n), EncoderDepth)

\* lines 70-74: the decoder model
Decoder(t, n, feat, w) ==
    LET h == Blocks(AddPos(t, n), DecoderDepth)
    IN  Tensor([j \in 1..Len(h) |->
                   Tensor([f \in 1..feat |-> w * h[j] + f])])

\* input samples of L timesteps of F features: a rising and a falling one
Samples(len, feat) ==
    {Tensor([i \in 1..len |-> Tensor([f \in 1..feat |-> i - 1])]),
     Tensor([i \in 1..len |-> Tensor([f \in 1..feat |-> len - i])])}

-----------------------------------------------------------------------------
(* The pretraining loss (lines 94-96).  Arrays are flattened; the mean is  *)
(* kept as the fraction num / den.                                         *)

LossVals == {-1, 0, 1}

Square(v) == v * v

\* line 95: mask = cast(not_equal(y_true, 0), float32)
ZeroMask(yt) == [i \in 1..Len(yt) |-> IF yt[i] # 0 THEN 1 ELSE 0]

\* the value of loss before it is computed
NoLoss == [num |-> 0, den |-> 0]

\* line 96: reduce_mean(square(y_true - y_pred) * mask)
MaeLoss(yt, yp) ==
    [num |-> SumSeq([i \in 1..Len(yt) |->
                        Square(yt[i] - yp[i]) * ZeroMask(yt)[i]]),
     den |-> Len(yt)]

-----------------------------------------------------------------------------
(* The ViT patch stage (ViT.ipynb, Patches / PatchEncoder / _build_model). *)
(* Tensors are shapes <<rows, width>> without the batch axis; "error" is   *)
(* the exception the framework raises.                                     *)

PatchSize     == 4
ProjectionDim == 64
Error         == <<"error">>
Unset         == <<>>
Pending       == <<"pending">>

\* Patches.call: tf.reshape(x, [batch_size, -1, patch_size * x.shape[-1]])
PatchesCall(shape) ==
    LET width == PatchSize * shape[2]
    IN  IF (shape[1] * shape[2]) % width = 0
        THEN <<(shape[1] * shape[2]) \div width, width>>
        ELSE Error

\* _build_model: num_patches = (input_shape[0] // 4) * (input_shape[1] // 1)
NumPatches(shape) == (shape[1] \div 4) * (shape[2] \div 1)

\* PatchEncoder.call: projection(patch) + position_embedding(positions);
\* the projection keeps the rows, the table has num_patches rows, and the
\* sum broadcasts a single row only
PatchEncoderCall(p, n) ==
    IF p = Error \/ n <= 0 THEN Error
    ELSE IF p[1] = n \/ p[1] = 1 THEN <<n, ProjectionDim>>
    ELSE IF n = 1 THEN <<p[1], ProjectionDim>>
    ELSE Error

-----------------------------------------------------------------------------
(* The classification head and the training driver of Swin_MAE.            *)

Modes     == {"pretrain", "linear", "fine-tune"}
TrainLens == {2, 3}                  \* sequence lengths of the trained object

\* parameters of the head's Dense layer: a weight and a bias
HeadVals == [w : ParamVals, b : ParamVals]

\* _add_classification_head (lines 78-84): the .layers list of the head
AddClassificationHead(trainable) ==
    IF trainable
    THEN <<"InputLayer", "GlobalAveragePooling1D", "Dense">>
    ELSE <<"InputLayer", "GlobalAveragePooling1D", "Lambda", "Dense">>

\* line 82: the Lambda is tf.stop_gradient, so no gradient of the loss
\* reaches what feeds a head that has it
GradientReaches(head) == \A i \in 1..Len(head) : head[i] # "Lambda"

\* line 116: not isinstance(self.classifier.layers[1], layers.Lambda);
\* Python's layers[1] is the second layer
EncoderTrainable(head) == head[2] # "Lambda"

\* line 131: the checkpoint file of finetune
FinetuneTarget(trainable) ==
    IF ~trainable THEN "linear_model.h5" ELSE "finetune_model.h5"

\* line 107: the checkpoint file of pretrain
PretrainTarget == "pretrained_encoder.h5"

\* ModelCheckpoint(save_best_only=True) monitors val_loss: it writes its file
\* when the fit has validation data and skips the save when it has none
CheckpointWrites(target, has_validation) ==
    IF has_validation THEN {target} ELSE {}

\* line 96 inside fit: y_true - y_pred needs shapes that broadcast
LossShapesAgree(target_len, pred_len) ==
    target_len = pred_len \/ pred_len = 1 \/ target_len = 1

\* train() with the test of its mode inverted
TrainDispatchInverted(mode) ==
    IF mode # "pretrain" THEN "pretrain" ELSE "finetune"

\* lines 87-91: which method train() runs
TrainDispatch(mode) == IF mode = "pretrain" THEN "pretrain" ELSE "finetune"

\* the head applied to the encoder output, then np.argmax (line 143), for
\* two classes: mean pooling, a Dense score against the bias, softmax;
\* pooling nothing gives NaN scores, whose argmax is 0
Classify(enc, hp) ==
    IF Len(enc) > 0 /\ hp.w * SumSeq(enc) > hp.b * Len(enc) THEN 1 ELSE 0

\* model.predict of evaluate (lines 140-143) on one sample, for the sort
\* outcome sh of the masking's noise draw
Predict(inp, sh, ew, hp, len, ratio) ==
    Classify(Encoder(Gather(DenseEmbed(inp, ew),
                            IdsKeep(sh, LenKeep(len, ratio))), len), hp)

-----------------------------------------------------------------------------
(* Values of the variables a specification does not use *)

IdleCfg  == L = 0 /\ F = 0 /\ mask_ratio = 0
IdleFwd  == /\ pc = None /\ inputs = <<>> /\ x = <<>> /\ len_keep = 0
            /\ noise = <<>> /\ ids_shuffle = <<>> /\ ids_restore = <<>>
            /\ ids_keep = <<>> /\ masked_x = <<>> /\ encoder_output = <<>>
            /\ reconstructed = <<>>
IdleLoss == y_true = <<>> /\ y_pred = <<>> /\ loss = NoLoss
IdleViT  == /\ vit_shape = <<>> /\ patches = Unset /\ num_patches = 0
            /\ encoded = Unset
IdleObj  == /\ encW = 0 /\ decW = 0 /\ headP = 0 /\ classifier = <<>>
            /\ encoder_trainable = TRUE /\ files = {} /\ call = None
            /\ stage = None /\ preds = <<>>

-----------------------------------------------------------------------------
(* SpecKeep: the keep length of _random_masking (line 40) on its own, for  *)
(* every sequence length up to MaxSeqLen and every ratio in hundredths.    *)

InitKeep ==
    /\ L \in 1..MaxSeqLen
    /\ F = 1
    /\ mask_ratio \in 0..99
    /\ pc = "start" /\ inputs = <<>> /\ x = <<>> /\ len_keep = 0
    /\ noise = <<>> /\ ids_shuffle = <<>> /\ ids_restore = <<>>
    /\ ids_keep = <<>> /\ masked_x = <<>> /\ encoder_output = <<>>
    /\ reconstructed = <<>>
    /\ IdleLoss /\ IdleViT /\ IdleObj

KeepLength ==
    /\ pc = "start"
    /\ len_keep' = LenKeep(L, mask_ratio)
    /\ pc' = "kept"
    /\ UNCHANGED <<cfgVars, inputs, x, noise, ids_shuffle, ids_restore,
                   ids_keep, masked_x, encoder_output, reconstructed,
                   lossVars, vitVars, objVars>>

NextKeep == KeepLength

SpecKeep == InitKeep /\ [][NextKeep]_vars

\* C1: for every L and every mask ratio r in [0,1) the masking keeps exactly
\* floor(L * (1 - r)) patches; for L = 23 and r = 0.75 it keeps 5.
C1_KeepsFloor ==
    pc = "kept" =>
        /\ len_keep = FloorKeep(L, mask_ratio)
        /\ (L = 23 /\ mask_ratio = 75 => len_keep = 5)

-----------------------------------------------------------------------------
(* SpecMask: one forward pass of mae_model = decoder(encoder(inputs)),     *)
(* step by step, for every input, mask ratio, noise draw and sort outcome. *)

InitMask ==
    /\ L \in 1..MaxLen
    /\ F \in 1..MaxFeat
    /\ mask_ratio \in RatioVals
    /\ pc = "start"
    /\ inputs \in Samples(L, F)
    /\ x = <<>> /\ len_keep = 0
    /\ noise = <<>> /\ ids_shuffle = <<>> /\ ids_restore = <<>>
    /\ ids_keep = <<>> /\ masked_x = <<>> /\ encoder_output = <<>>
    /\ reconstructed = <<>>
    /\ IdleLoss /\ IdleViT
    /\ encW \in ParamVals /\ decW \in ParamVals /\ headP = 0
    /\ classifier = <<>> /\ encoder_trainable = TRUE /\ files = {}
    /\ call = None /\ stage = None /\ preds = <<>>

\* line 53
Embed ==
    /\ pc = "start"
    /\ x' = DenseEmbed(inputs, encW)
    /\ pc' = "embedded"
    /\ UNCHANGED <<cfgVars, inputs, len_keep, noise, ids_shuffle, ids_restore,
                   ids_keep, masked_x, encoder_output, reconstructed,
                   lossVars, vitVars, objVars>>

\* lines 37-47 (called at line 57)
RandomMasking ==
    /\ pc = "embedded"
    /\ \E nz \in [1..L -> NoiseVals] :
         \E sh \in IdsShuffle(nz) :
            /\ noise' = nz
            /\ len_keep' = LenKeep(L, mask_ratio)
            /\ ids_shuffle' = sh
            /\ ids_restore' = IdsRestore(sh)
            /\ ids_keep' = IdsKeep(sh, LenKeep(L, mask_ratio))
            /\ masked_x' = Gather(x, IdsKeep(sh, LenKeep(L, mask_ratio)))
    /\ pc' = "masked"
    /\ UNCHANGED <<cfgVars, inputs, x, encoder_output, reconstructed,
                   lossVars, vitVars, objVars>>

\* lines 60-61
AddPositional ==
    /\ pc = "masked"
    /\ masked_x' = AddPos(masked_x, L)
    /\ pc' = "positioned"
    /\ UNCHANGED <<cfgVars, inputs, x, len_keep, noise, ids_shuffle,
                   ids_restore, ids_keep, encoder_output, reconstructed,
                   lossVars, vitVars, objVars>>

\* lines 64-67
Encode ==
    /\ pc = "positioned"
    /\ encoder_output' = Blocks(masked_x, EncoderDepth)
    /\ pc' = "encoded"
    /\ UNCHANGED <<cfgVars, inputs, x, len_keep, noise, ids_shuffle,
                   ids_restore, ids_keep, masked_x, reconstructed,
                   lossVars, vitVars, objVars>>

\* lines 70-74, applied to the encoder output at line 98
Decode ==
    /\ pc = "encoded"
    /\ reconstructed' = Decoder(encoder_output, L, F, decW)
    /\ pc' = "decoded"
    /\ UNCHANGED <<cfgVars, inputs, x, len_keep, noise, ids_shuffle,
                   ids_restore, ids_keep, masked_x, encoder_output,
                   lossVars, vitVars, objVars>>

NextMask == Embed \/ RandomMasking \/ AddPositional \/ Encode \/ Decode

SpecMask == InitMask /\ [][NextMask]_vars

Masked == pc \in {"masked", "positioned", "encoded", "decoded"}

IsPermutation(p, n) ==
    /\ Len(p) = n
    /\ \A i \in 1..n : p[i] \in 0..(n - 1)
    /\ \A k \in 0..(n - 1) : \E i \in 1..n : p[i] = k

\* C2: for every noise draw, ties included, ids_shuffle is a permutation of
\* [0, L), ids_restore is its inverse (reordering by ids_shuffle and then by
\* ids_restore gives the original sequence back), and ids_keep has no
\* duplicates.
C2_RestoreInvertsShuffle ==
    Masked =>
        /\ IsPermutation(ids_shuffle, L)
        /\ IsPermutation(ids_restore, L)
        /\ \A i \in 1..L : ids_restore[ids_shuffle[i] + 1] = i - 1
        /\ Gather(Gather(x, ids_shuffle), ids_restore) = x
        /\ Gather(Gather(PosEmbed(L), ids_shuffle), ids_restore) = PosEmbed(L)
        /\ \A i, j \in 1..Len(ids_keep) : ids_keep[i] = ids_keep[j] => i = j

\* C2 witness: a draw with a tie whose shuffle is not its own inverse
C2_Witness ==
    /\ pc = "masked"
    /\ L = 3
    /\ \E i, j \in 1..L : i # j /\ noise[i] = noise[j]
    /\ ids_shuffle # ids_restore

\* C9: every kept patch embedding has the positional row of its own
\* original index (row ids_keep[j] for the j-th kept patch) added to it.
C9_PositionOfOwnIndex ==
    pc = "positioned" =>
        \A j \in 1..Len(masked_x) :
            masked_x[j] = x[ids_keep[j] + 1] + PosEmbed(L)[ids_keep[j] + 1]

\* C10: the reconstruction has the shape of the target: L positions of F
\* features.
C10_ReconstructionShape ==
    pc = "decoded" =>
        /\ Len(reconstructed) = L
        /\ \A j \in 1..Len(reconstructed) : Len(reconstructed[j]) = F

-----------------------------------------------------------------------------
(* SpecLoss: mae_loss on every pair of equal-shaped arrays of the bounds.  *)

InitLoss ==
    /\ IdleCfg /\ IdleFwd /\ IdleViT /\ IdleObj
    /\ \E n \in 1..MaxElems :
          /\ y_true \in [1..n -> LossVals]
          /\ y_pred \in [1..n -> LossVals]
    /\ loss = NoLoss

ComputeLoss ==
    /\ loss = NoLoss
    /\ loss' = MaeLoss(y_true, y_pred)
    /\ UNCHANGED <<cfgVars, fwdVars, y_true, y_pred, vitVars, objVars>>

NextLoss == ComputeLoss

SpecLoss == InitLoss /\ [][NextLoss]_vars

NonZero(yt) == {i \in 1..Len(yt) : yt[i] # 0}

RECURSIVE SumOver(_, _, _)
SumOver(S, yt, yp) ==
    IF S = {} THEN 0
    ELSE LET i == CHOOSE k \in S : TRUE
         IN  Square(yt[i] - yp[i]) + SumOver(S \ {i}, yt, yp)

\* C8 as stated: the loss is the mean of (y_true - y_pred)^2 over exactly
\* the positions where y_true # 0 (sum over those positions divided by their
\* number).
C8_MeanOverNonZero ==
    (loss # NoLoss /\ NonZero(y_true) # {}) =>
        loss.num * Cardinality(NonZero(y_true))
            = SumOver(NonZero(y_true), y_true, y_pred) * loss.den

\* What mae_loss computes instead: the sum of (y_true - y_pred)^2 over the
\* positions where y_true # 0 divided by the number of ALL positions; the
\* value of y_pred at a position where y_true = 0 does not enter it.
MaeLossDividesByAll ==
    loss # NoLoss =>
        /\ loss.num = SumOver(NonZero(y_true), y_true, y_pred)
        /\ loss.den = Len(y_true)
        /\ \A alt \in [1..Len(y_true) -> LossVals] :
              (\A i \in NonZero(y_true) : alt[i] = y_pred[i])
                  => MaeLoss(y_true, alt) = loss

-----------------------------------------------------------------------------
(* SpecViT: the patch stage of ViT._build_model for every input shape.     *)

InitViT ==
    /\ IdleCfg /\ IdleFwd /\ IdleLoss /\ IdleObj
    /\ vit_shape \in (1..MaxSteps) \X (1..MaxChans)
    /\ patches = Unset /\ num_patches = 0 /\ encoded = Unset

\* patches = Patches(patch_size=4)(inputs)
SplitPatches ==
    /\ patches = Unset
    /\ patches' = PatchesCall(vit_shape)
    /\ UNCHANGED <<cfgVars, fwdVars, lossVars, vit_shape, num_patches,
                   encoded, objVars>>

\* num_patches = ...
CountPatches ==
    /\ patches # Unset /\ encoded = Unset
    /\ num_patches' = NumPatches(vit_shape)
    /\ encoded' = Pending
    /\ UNCHANGED <<cfgVars, fwdVars, lossVars, vit_shape, patches, objVars>>

\* encoded_patches = PatchEncoder(num_patches, projection_dim=64)(patches)
EncodePatches ==
    /\ encoded = Pending
    /\ encoded' = PatchEncoderCall(patches, num_patches)
    /\ UNCHANGED <<cfgVars, fwdVars, lossVars, vit_shape, patches,
                   num_patches, objVars>>

NextViT == SplitPatches \/ CountPatches \/ EncodePatches

SpecViT == InitViT /\ [][NextViT]_vars

\* C3: for every input shape the Patches layer can split, and for the
\* default shape (23, 4), the number of patches emitted equals num_patches,
\* the rows of the positional table, so that the patch stage yields
\* num_patches vectors of width projection_dim.
C3_PatchCountMatchesTable ==
    (encoded \notin {Unset, Pending}
        /\ (patches # Error \/ vit_shape = <<23, 4>>)) =>
        /\ patches # Error
        /\ patches[1] = num_patches
        /\ encoded = <<num_patches, ProjectionDim>>

-----------------------------------------------------------------------------
(* SpecTrain: one Swin_MAE object under any sequence of train, pretrain,   *)
(* finetune and evaluate calls.  `inputs` is the sample evaluate is given. *)

InitTrain ==
    /\ L \in TrainLens
    /\ F = 1
    /\ mask_ratio \in RatioVals
    /\ inputs \in Samples(L, F)
    /\ pc = None /\ x = <<>> /\ len_keep = 0
    /\ noise = <<>> /\ ids_shuffle = <<>> /\ ids_restore = <<>>
    /\ ids_keep = <<>> /\ masked_x = <<>> /\ encoder_output = <<>>
    /\ reconstructed = <<>>
    /\ IdleLoss /\ IdleViT
    /\ encW \in ParamVals /\ decW \in ParamVals /\ headP \in HeadVals
    /\ classifier = AddClassificationHead(TRUE)
    /\ encoder_trainable = TRUE
    /\ files = {}
    /\ call = [name |-> "init", mode |-> None, ran |-> None, status |-> "ok",
               target |-> None, wrote |-> {}, from |-> "untrained"]
    /\ stage = "untrained"
    /\ preds = <<>>

\* pretrain (lines 93-113), reached as `name` with mode `mode`
DoPretrain(name, mode) ==
    IF LossShapesAgree(L, LenKeep(L, mask_ratio))
    THEN /\ encW' \in (IF encoder_trainable THEN ParamVals ELSE {encW})
         /\ decW' \in ParamVals
         /\ files' = files \cup CheckpointWrites(PretrainTarget, FALSE)
         /\ call' = [name |-> name, mode |-> mode, ran |-> "pretrain",
                     status |-> "ok", target |-> PretrainTarget,
                     wrote |-> CheckpointWrites(PretrainTarget, FALSE),
                     from |-> stage]
         /\ stage' = "pretrained"
         /\ preds' = <<>>
         /\ UNCHANGED <<headP, classifier, encoder_trainable>>
    ELSE /\ call' = [name |-> name, mode |-> mode, ran |-> "pretrain",
                     status |-> "raised", target |-> PretrainTarget,
                     wrote |-> {}, from |-> stage]
         /\ UNCHANGED <<encW, decW, headP, classifier, encoder_trainable,
                        files, stage, preds>>

\* finetune (lines 115-136) with the head `head`, reached as `name`
DoFinetune(name, mode, head) ==
    LET trainable == EncoderTrainable(head)
        updates   == trainable /\ GradientReaches(head)
        target    == FinetuneTarget(trainable)
    IN  /\ classifier' = head
        /\ encoder_trainable' = trainable
        /\ encW' \in (IF updates THEN ParamVals ELSE {encW})
        /\ headP' \in HeadVals
        /\ files' = files \cup CheckpointWrites(target, TRUE)
        /\ call' = [name |-> name, mode |-> mode, ran |-> "finetune",
                    status |-> "ok", target |-> target,
                    wrote |-> CheckpointWrites(target, TRUE), from |-> stage]
        /\ stage' = IF updates THEN "fine-tuned" ELSE "linear"
        /\ preds' = <<>>
        /\ UNCHANGED decW

\* train (lines 86-91)
Train ==
    /\ \E mode \in Modes :
         IF TrainDispatch(mode) = "pretrain"
         THEN DoPretrain("train", mode)
         ELSE DoFinetune("train", mode,
                         AddClassificationHead(mode = "fine-tune"))
    /\ UNCHANGED <<cfgVars, fwdVars, lossVars, vitVars>>

\* a direct call of pretrain
Pretrain ==
    /\ DoPretrain("pretrain", None)
    /\ UNCHANGED <<cfgVars, fwdVars, lossVars, vitVars>>

\* a direct call of finetune, with the head the object has
Finetune ==
    /\ DoFinetune("finetune", None, classifier)
    /\ UNCHANGED <<cfgVars, fwdVars, lossVars, vitVars>>

\* evaluate (lines 138-159): every forward pass runs _random_masking anew
Evaluate ==
    /\ Len(preds) < MaxEvals
    /\ \E sh \in ShuffleOutcomes(L) :
            preds' = Append(preds,
                            Predict(inputs, sh, encW, headP, L, mask_ratio))
    /\ call' = [name |-> "evaluate", mode |-> None, ran |-> "evaluate",
                status |-> "ok", target |-> None, wrote |-> {},
                from |-> stage]
    /\ UNCHANGED <<cfgVars, fwdVars, lossVars, vitVars, encW, decW, headP,
                   classifier, encoder_trainable, files, stage>>

NextTrain == Train \/ Pretrain \/ Finetune \/ Evaluate

SpecTrain == InitTrain /\ [][NextTrain]_vars

TrainedAs(mode) ==
    call.name = "train" /\ call.mode = mode /\ call.status = "ok"

\* C4: train(mode='linear') freezes the encoder: the step changes no
\* encoder (or decoder) parameter, the head passes no gradient to the
\* encoder and finetune marks the encoder as not trainable; with
\* mode='fine-tune' encoder and head are both trainable.
C4_LinearFreezesEncoder ==
    [][ /\ (call'.name = "train" /\ call'.mode = "linear") =>
              /\ encW' = encW /\ decW' = decW
              /\ ~GradientReaches(classifier')
              /\ ~encoder_trainable'
        /\ (call'.name = "train" /\ call'.mode = "fine-tune") =>
              /\ GradientReaches(classifier')
              /\ encoder_trainable' ]_vars

\* C5 as stated: the lifecycle is untrained -> pretrained -> {linear |
\* fine-tuned}: linear / fine-tune training is reached only from the
\* pretrained state, and once linear or fine-tuned no call moves the object
\* back to pretrained.
C5_LifecycleOrder ==
    /\ (stage \in {"linear", "fine-tuned"}
          /\ call.from \notin {"linear", "fine-tuned"})
         => call.from = "pretrained"
    /\ stage = "pretrained" => call.from \notin {"linear", "fine-tuned"}

\* C5 amended: the lifecycle is not ordered.  A train call that completes
\* leaves the object in the state its mode names (pretrain -> pretrained,
\* linear -> linear, fine-tune -> fine-tuned) whatever state it was in
\* before, a call that raises leaves the state as it was, and no call
\* returns the object to untrained.
C5_StageFollowsMode ==
    /\ TrainedAs("pretrain") => stage = "pretrained"
    /\ TrainedAs("linear") => stage = "linear"
    /\ TrainedAs("fine-tune") => stage = "fine-tuned"
    /\ call.status = "raised" => stage = call.from
    /\ stage = "untrained" => call.from = "untrained"

\* C5 witness: a pretrain that completes on an object that was linear or
\* fine-tuned
C5_Witness ==
    TrainedAs("pretrain") /\ call.from \in {"linear", "fine-tuned"}

\* C6: evaluate calls on the same model and input, with no training in
\* between, give identical predictions.
C6_EvaluateRepeats ==
    \A i, j \in 1..Len(preds) : preds[i] = preds[j]

\* C7: the checkpoint file is named by the training mode: pretrain ->
\* pretrained_encoder, linear -> linear_model, fine-tune -> finetune_model,
\* and a run writes under no other mode's name.
ModeFile(mode) ==
    CASE mode = "pretrain"  -> "pretrained_encoder.h5"
      [] mode = "linear"    -> "linear_model.h5"
      [] mode = "fine-tune" -> "finetune_model.h5"

C7_CheckpointNamedByMode ==
    call.name = "train" =>
        /\ call.target = ModeFile(call.mode)
        /\ call.wrote \subseteq {ModeFile(call.mode)}

====
